---- MODULE Spec2Model ----
(***************************************************************************)
(* Fuzzy entropy (FuzzyEn) of a single or multi-channel time series:       *)
(* neurokit2/complexity/entropy_fuzzy.py.                                  *)
(*                                                                         *)
(* One call of entropy_fuzzy is a small state machine over its local       *)
(* variables (signal, info, i, out); the caller may repeat the call with   *)
(* the same arguments.  Floating point numbers are fixed point integers:   *)
(* samples are integers, tolerances are in hundredths, phi values and      *)
(* entropies in thousandths; NaN and +Inf are values of their own.         *)
(***************************************************************************)
EXTENDS Integers, Sequences, FiniteSets, TLC

(***************************************************************************)
(* Bounds of the inputs.                                                   *)
(***************************************************************************)
MaxChannels == 2
MaxLen == 4
MaxCells == 8
SampleValues == {0, 1}

DelayArgs == {0, 1, 2}
DimensionArgs == {0, 1, 2}

(***************************************************************************)
(* Floating point values.                                                  *)
(***************************************************************************)
Num(x) == [k |-> "num", v |-> x, e |-> ""]
NaN == [k |-> "nan", v |-> 0, e |-> ""]
Inf == [k |-> "inf", v |-> 0, e |-> ""]
None == [k |-> "none", v |-> 0, e |-> ""]
Default == [k |-> "default", v |-> 0, e |-> ""]
Raise(name) == [k |-> "err", v |-> 0, e |-> name]
IsError(x) == x.k = "err"

ToleranceArgs == {Default, Num(-100), Num(1)}
KwargsArgs == {[n |-> 2], [n |-> 1]}

RECURSIVE SumSeq(_)
SumSeq(s) == IF s = <<>> THEN 0 ELSE Head(s) + SumSeq(Tail(s))

RECURSIVE Flatten(_)
Flatten(ss) == IF ss = <<>> THEN <<>> ELSE Head(ss) \o Flatten(Tail(ss))

Abs(x) == IF x < 0 THEN -x ELSE x

RECURSIVE Pow(_, _)
Pow(b, n) == IF n = 0 THEN 1 ELSE b * Pow(b, n - 1)

RECURSIVE ISqrtFrom(_, _)
ISqrtFrom(v, s) == IF (s + 1) * (s + 1) > v THEN s ELSE ISqrtFrom(v, s + 1)

\* floor(sqrt(v)) for v >= 0
ISqrt(v) == ISqrtFrom(v, 0)

(***************************************************************************)
(* Containers.  A DataFrame is its columns (data[c] is column c, labelled  *)
(* c); a two-dimensional array is its rows, shape (channels, samples); a   *)
(* list is one-dimensional or a list of rows.                              *)
(***************************************************************************)
Signals(len) == [1..len -> SampleValues]

Matrices(n, len) == [1..n -> Signals(len)]

NdArray1(xs) == [type |-> "ndarray", ndim |-> 1, shape |-> <<Len(xs)>>, data |-> xs]

NdArray2(n, len, rows) ==
    [type |-> "ndarray", ndim |-> 2, shape |-> <<n, len>>, data |-> rows]

DataFrame(nrows, ncols, cols) ==
    [type |-> "DataFrame", ndim |-> 2, shape |-> <<nrows, ncols>>, data |-> cols]

PyList(depth, xs) == [type |-> "list", ndim |-> depth, shape |-> <<Len(xs)>>, data |-> xs]

\* pd.DataFrame(array): one row per array row
FrameOfArray(a) ==
    DataFrame(a.shape[1], a.shape[2],
              [s \in 1..a.shape[2] |-> [c \in 1..a.shape[1] |-> a.data[c][s]]])

\* DataFrame.transpose()
Transpose(df) ==
    DataFrame(df.shape[2], df.shape[1],
              [c \in 1..df.shape[1] |-> [s \in 1..df.shape[2] |-> df.data[s][c]]])

\* utils._sanitize_multichannel: arrays are (channels, samples) and become a
\* frame with one column per channel; a frame is taken as it is
SanitizeMultichannel(sig) ==
    IF sig.type = "ndarray" THEN Transpose(FrameOfArray(sig)) ELSE sig

\* every sample of the signal, as np.std sees them
AllSamples(sig) == IF sig.ndim > 1 THEN Flatten(sig.data) ELSE sig.data

\* np.std in hundredths (population standard deviation)
StdCenti(xs) ==
    LET n == Len(xs)
        sq == [j \in 1..n |-> xs[j] * xs[j]]
    IN ISqrt((10000 * (n * SumSeq(sq) - SumSeq(xs) * SumSeq(xs))) \div (n * n))

\* utils._get_r: the tolerance given, or 0.2 times the standard deviation of
\* the whole signal; a tolerance that is not a positive number is an error
GetR(sig, r, dimension) ==
    IF r.k = "default"
    THEN IF AllSamples(sig) = <<>>
         THEN Raise("InvalidTolerance")
         ELSE LET derived == StdCenti(AllSamples(sig)) \div 5
              IN IF derived <= 0 THEN Raise("InvalidTolerance") ELSE Num(derived)
    ELSE IF r.v <= 0 THEN Raise("InvalidTolerance") ELSE r

(***************************************************************************)
(* utils._phi and utils._phi_divide.                                       *)
(***************************************************************************)
\* number of embedding vectors of order k
NumVectors(xs, delay, k) == Len(xs) - (k - 1) * delay

\* embedding vector i of order k, k times its mean-centred value
Centred(xs, delay, k, i) ==
    LET vec == [j \in 1..k |-> xs[i + (j - 1) * delay]]
    IN [j \in 1..k |-> k * vec[j] - SumSeq(vec)]

MaxOf(S) == CHOOSE x \in S : \A y \in S : y <= x

\* Chebyshev distance of two centred vectors (times k)
Chebyshev(u, v) == MaxOf({Abs(u[j] - v[j]) : j \in 1..Len(u)})

\* 1000 * exp(-q), rounded; underflows to 0
ExpNegMilli(q) ==
    IF q >= 8 THEN 0 ELSE <<1000, 368, 135, 50, 18, 7, 2, 1>>[q + 1]

\* fuzzy membership of distance dist (times k) under tolerance rc (hundredths)
Membership(dist, k, rc, n) == ExpNegMilli((100 * Pow(dist, n)) \div (Pow(k, n) * rc))

\* phi(k) in thousandths: mean over the ordered pairs i # j of the membership
PhiOrder(xs, delay, k, rc, n) ==
    LET nv == NumVectors(xs, delay, k)
        cv == [i \in 1..nv |-> Centred(xs, delay, k, i)]
        row == [i \in 1..nv |->
                  SumSeq([j \in 1..nv |->
                      IF i = j THEN 0 ELSE Membership(Chebyshev(cv[i], cv[j]), k, rc, n)])]
    IN SumSeq(row) \div (nv * (nv - 1))

\* utils._phi with fuzzy=True: <<phi(m), phi(m+1)>>, or the error raised
Phi(chan, delay, dimension, r, kwargs) ==
    IF delay < 1 \/ dimension < 1 THEN Raise("InvalidParameter")
    ELSE IF chan.ndim # 1 THEN Raise("ShapeMismatch")
    ELSE IF NumVectors(chan.data, delay, dimension + 1) < 2 THEN Raise("InsufficientSamples")
    ELSE [k |-> "phi", v |-> 0, e |-> "",
          phi |-> <<PhiOrder(chan.data, delay, dimension, r.v, kwargs.n),
                    PhiOrder(chan.data, delay, dimension + 1, r.v, kwargs.n)>>]

RECURSIVE FloorLog2(_)
FloorLog2(x) == IF x < 2 THEN 0 ELSE 1 + FloorLog2(x \div 2)

\* 1000 * log2(x), x >= 1, linear between the powers of two
Log2Milli(x) ==
    LET e == FloorLog2(x)
    IN 1000 * e + (1000 * (x - Pow(2, e))) \div Pow(2, e)

\* utils._phi_divide: -ln(phi(m+1) / phi(m)) in thousandths
PhiDivide(phi) ==
    IF phi[1] = 0 THEN NaN
    ELSE IF phi[2] = 0 THEN Inf
    ELSE Num((693 * (Log2Milli(phi[1]) - Log2Milli(phi[2]))) \div 1000)

\* _entropy_fuzzy
EntropyFuzzyInner(chan, r, delay, dimension, kwargs) ==
    LET phi == Phi(chan, delay, dimension, r, kwargs)
    IN IF IsError(phi) THEN phi ELSE PhiDivide(phi.phi)

(***************************************************************************)
(* entropy_fuzzy: the state of one call, and of the caller.                *)
(***************************************************************************)
VARIABLES
    arg,            \* the signal as the caller built it
    callerSignal,   \* the caller's signal object
    delay, dimension, r, kwargs,    \* the other arguments
    signal,         \* the local name signal
    info,           \* the info dictionary
    i,              \* the index of the channel loop
    out,            \* the local name out
    pc,             \* position in the function
    err,            \* the exception that left the function
    calls,          \* the arguments of each _entropy_fuzzy call so far
    rCalls,         \* for each _get_r call, the number of _entropy_fuzzy calls before it
    run,            \* 1 for the first call, 2 for the repeated one
    first           \* what the first call gave

vars == <<arg, callerSignal, delay, dimension, r, kwargs, signal, info, i, out,
          pc, err, calls, rCalls, run, first>>

NoInfo == [key \in {} |-> None]

\* the two parameters stored under each other's key
InfoPrepareSwapped(dim, tau) == [Dimension |-> tau, Tau |-> dim]

\* lines 60-61
InfoPrepare(dim, tau) == [Dimension |-> dim, Tau |-> tau]

\* isinstance(signal, np.ndarray) alone
IsMultichannelArrayOnly(sig) == sig.type = "ndarray" /\ sig.ndim > 1

\* line 64
IsMultichannel(sig) == sig.type \in {"ndarray", "DataFrame"} /\ sig.ndim > 1

\* the caller's object replaced by the sanitized one
CallerOverwritten(caller, local) == local

\* line 66 binds the local name; the caller's object stays as it was
CallerAfterSanitize(caller, local) == caller

\* np.full(signal.shape[0], np.nan): one slot per sample
ValuesInitRows(sig) == [j \in 1..sig.shape[1] |-> NaN]

\* line 69: np.full(signal.shape[1], np.nan)
ValuesInit(sig) == [j \in 1..sig.shape[2] |-> NaN]

\* line 70: iterating a frame gives its column labels, enumerate numbers them from 0
Enumerate(sig) == [j \in 1..Len(sig.data) |-> <<j - 1, j>>]

\* signal[colname]: the column as a one-dimensional series
Column(sig, colname) ==
    [type |-> "Series", ndim |-> 1, shape |-> <<sig.shape[1]>>, data |-> sig.data[colname]]

\* every channel with the tolerance of its own samples
ChannelCallOwnR(sig, colname, inf, tau, dim, kw) ==
    LET own == GetR(Column(sig, colname), Default, dim)
    IN [signal |-> Column(sig, colname),
        r |-> IF IsError(own) THEN inf["Tolerance"] ELSE own,
        delay |-> tau, dimension |-> dim, kwargs |-> kw]

\* lines 71-72: the arguments of the call for one column
ChannelCall(sig, colname, inf, tau, dim, kw) ==
    [signal |-> Column(sig, colname), r |-> inf["Tolerance"],
     delay |-> tau, dimension |-> dim, kwargs |-> kw]

\* lines 77-78: the arguments of the call for a single time series
SingleCall(sig, inf, tau, dim, kw) ==
    [signal |-> sig, r |-> inf["Tolerance"], delay |-> tau, dimension |-> dim, kwargs |-> kw]

CallEntropy(c) == EntropyFuzzyInner(c.signal, c.r, c.delay, c.dimension, c.kwargs)

\* info["Values"][0] = ...
SetValueFirst(values, idx, x) == [values EXCEPT ![1] = x]

\* line 71: info["Values"][i] = ...
SetValue(values, idx, x) == [values EXCEPT ![idx + 1] = x]

\* np.sum
NpSum(values) ==
    IF \E j \in 1..Len(values) : values[j].k = "nan" THEN NaN
    ELSE IF \E j \in 1..Len(values) : values[j].k = "inf" THEN Inf
    ELSE Num(SumSeq([j \in 1..Len(values) |-> values[j].v]))

\* np.nanmean: the mean of the entries that are not NaN
NpNanMean(values) ==
    LET kept == SelectSeq(values, LAMBDA x : x.k # "nan")
    IN IF kept = <<>> THEN NaN
       ELSE IF \E j \in 1..Len(kept) : kept[j].k = "inf" THEN Inf
       ELSE Num(SumSeq([j \in 1..Len(kept) |-> kept[j].v]) \div Len(kept))

\* line 73: np.mean, in thousandths; NaN for an empty array or a NaN entry
NpMean(values) ==
    IF values = <<>> \/ \E j \in 1..Len(values) : values[j].k = "nan" THEN NaN
    ELSE IF \E j \in 1..Len(values) : values[j].k = "inf" THEN Inf
    ELSE Num(SumSeq([j \in 1..Len(values) |-> values[j].v]) \div Len(values))

Shapes == {<<n, len>> \in (0..MaxChannels) \X (1..MaxLen) : n * len <= MaxCells}

Init ==
    /\ \/ \E len \in 1..MaxLen : \E xs \in Signals(len) :
            arg \in {PyList(1, xs), NdArray1(xs)}
       \/ \E sh \in Shapes : \E m \in Matrices(sh[1], sh[2]) :
            \/ arg = NdArray2(sh[1], sh[2], m)
            \/ arg = DataFrame(sh[2], sh[1], m)
            \/ sh[1] > 0 /\ arg = PyList(2, m)
    /\ callerSignal = arg
    /\ delay \in DelayArgs
    /\ dimension \in DimensionArgs
    /\ r \in ToleranceArgs
    /\ kwargs \in KwargsArgs
    /\ signal = arg
    /\ info = NoInfo
    /\ i = 0
    /\ out = None
    /\ pc = "prepare"
    /\ err = ""
    /\ calls = <<>>
    /\ rCalls = <<>>
    /\ run = 1
    /\ first = [pc |-> "none", out |-> None, info |-> NoInfo, err |-> ""]

\* lines 59-61
Prepare ==
    /\ pc = "prepare"
    /\ info' = InfoPrepare(dimension, delay)
    /\ pc' = "dispatch"
    /\ UNCHANGED <<arg, callerSignal, delay, dimension, r, kwargs, signal, i, out, err,
                   calls, rCalls, run, first>>

\* lines 64-66
SanitizeMulti ==
    /\ pc = "dispatch"
    /\ IsMultichannel(signal)
    /\ signal' = SanitizeMultichannel(signal)
    /\ callerSignal' = CallerAfterSanitize(callerSignal, SanitizeMultichannel(signal))
    /\ pc' = "multi_r"
    /\ UNCHANGED <<arg, delay, dimension, r, kwargs, info, i, out, err, calls, rCalls,
                   run, first>>

\* lines 64, 74
DispatchSingle ==
    /\ pc = "dispatch"
    /\ ~IsMultichannel(signal)
    /\ pc' = "single_r"
    /\ UNCHANGED <<arg, callerSignal, delay, dimension, r, kwargs, signal, info, i, out,
                   err, calls, rCalls, run, first>>

\* info["Tolerance"] = _get_r(signal, r=r, dimension=dimension), then on to `next`
GetTolerance(next) ==
    LET res == GetR(signal, r, dimension)
    IN /\ rCalls' = Append(rCalls, Len(calls))
       /\ IF IsError(res)
          THEN /\ pc' = "raised"
               /\ err' = res.e
               /\ info' = info
          ELSE /\ pc' = next
               /\ err' = err
               /\ info' = ("Tolerance" :> res) @@ info
       /\ UNCHANGED <<arg, callerSignal, delay, dimension, r, kwargs, signal, i, out,
                      calls, run, first>>

\* line 68
GetToleranceMulti == pc = "multi_r" /\ GetTolerance("values")

\* line 76
GetToleranceSingle == pc = "single_r" /\ GetTolerance("single")

\* line 69
InitValues ==
    /\ pc = "values"
    /\ info' = ("Values" :> ValuesInit(signal)) @@ info
    /\ i' = 0
    /\ pc' = "loop"
    /\ UNCHANGED <<arg, callerSignal, delay, dimension, r, kwargs, signal, out, err,
                   calls, rCalls, run, first>>

\* the loop body inside try/except: a failing channel is skipped
LoopChannelSkipFailed ==
    /\ pc = "loop"
    /\ i < Len(Enumerate(signal))
    /\ LET item == Enumerate(signal)[i + 1]
           call == ChannelCall(signal, item[2], info, delay, dimension, kwargs)
           res == CallEntropy(call)
       IN /\ calls' = Append(calls, call)
          /\ info' = IF IsError(res) THEN info
                     ELSE [info EXCEPT !["Values"] = SetValue(@, item[1], res)]
          /\ i' = i + 1
          /\ UNCHANGED <<pc, err>>
    /\ UNCHANGED <<arg, callerSignal, delay, dimension, r, kwargs, signal, out, rCalls,
                   run, first>>

\* lines 70-72, one iteration; an exception of _entropy_fuzzy leaves the function
LoopChannel ==
    /\ pc = "loop"
    /\ i < Len(Enumerate(signal))
    /\ LET item == Enumerate(signal)[i + 1]
           call == ChannelCall(signal, item[2], info, delay, dimension, kwargs)
           res == CallEntropy(call)
       IN /\ calls' = Append(calls, call)
          /\ IF IsError(res)
             THEN /\ pc' = "raised"
                  /\ err' = res.e
                  /\ UNCHANGED <<info, i>>
             ELSE /\ info' = [info EXCEPT !["Values"] = SetValue(@, item[1], res)]
                  /\ i' = i + 1
                  /\ UNCHANGED <<pc, err>>
    /\ UNCHANGED <<arg, callerSignal, delay, dimension, r, kwargs, signal, out, rCalls,
                   run, first>>

\* line 73, once the loop is exhausted
MeanValues ==
    /\ pc = "loop"
    /\ i >= Len(Enumerate(signal))
    /\ out' = NpMean(info["Values"])
    /\ pc' = "return"
    /\ UNCHANGED <<arg, callerSignal, delay, dimension, r, kwargs, signal, info, i, err,
                   calls, rCalls, run, first>>

\* lines 77-78
SingleEntropy ==
    /\ pc = "single"
    /\ LET call == SingleCall(signal, info, delay, dimension, kwargs)
           res == CallEntropy(call)
       IN /\ calls' = Append(calls, call)
          /\ IF IsError(res)
             THEN /\ pc' = "raised"
                  /\ err' = res.e
                  /\ out' = out
             ELSE /\ pc' = "return"
                  /\ err' = err
                  /\ out' = res
    /\ UNCHANGED <<arg, callerSignal, delay, dimension, r, kwargs, signal, info, i,
                   rCalls, run, first>>

\* line 80
Return ==
    /\ pc = "return"
    /\ pc' = "done"
    /\ UNCHANGED <<arg, callerSignal, delay, dimension, r, kwargs, signal, info, i, out,
                   err, calls, rCalls, run, first>>

\* the caller calls entropy_fuzzy again with what it passed the first time
Repeat ==
    /\ pc \in {"done", "raised"}
    /\ run = 1
    /\ first' = [pc |-> pc, out |-> out, info |-> info, err |-> err]
    /\ run' = 2
    /\ signal' = callerSignal
    /\ info' = NoInfo
    /\ i' = 0
    /\ out' = None
    /\ pc' = "prepare"
    /\ err' = ""
    /\ calls' = <<>>
    /\ rCalls' = <<>>
    /\ UNCHANGED <<arg, callerSignal, delay, dimension, r, kwargs>>

Next ==
    \/ Prepare
    \/ SanitizeMulti
    \/ DispatchSingle
    \/ GetToleranceMulti
    \/ GetToleranceSingle
    \/ InitValues
    \/ LoopChannel
    \/ MeanValues
    \/ SingleEntropy
    \/ Return
    \/ Repeat

Spec == Init /\ [][Next]_vars

(***************************************************************************)
(* Properties.                                                             *)
(***************************************************************************)
Returned == pc = "done"

\* the input is a two-dimensional array or frame
ArgIsArrayOrFrame2D == arg.type \in {"ndarray", "DataFrame"} /\ arg.ndim = 2

\* the channels of a two-dimensional array (its rows) or frame (its columns)
NumChannels == IF arg.type = "ndarray" THEN arg.shape[1] ELSE arg.shape[2]

ArgChannel(c) ==
    [type |-> "Series", ndim |-> 1, shape |-> <<Len(arg.data[c])>>, data |-> arg.data[c]]

\* FuzzyEn of channel c of the input under the tolerance in info
ChannelEntropy(c) ==
    EntropyFuzzyInner(ArgChannel(c), info["Tolerance"], delay, dimension, kwargs)

AllFinite(values) == \A j \in 1..Len(values) : values[j].k = "num"

\* C1: on every return for multi-channel input, the scalar returned is the
\* arithmetic mean of all entries of info["Values"]: the sum of the entries
\* divided by their number (rounded down to the unit of the fixed point), +Inf
\* when an entry is +Inf and none is NaN, NaN when an entry is NaN or there is
\* no entry; info["Values"] has one entry per channel.
C1_MeanOfValues ==
    (Returned /\ ArgIsArrayOrFrame2D) =>
        LET values == info["Values"]
            n == Len(values)
            total == SumSeq([j \in 1..n |-> values[j].v])
        IN /\ n = NumChannels
           /\ IF n = 0 \/ \E j \in 1..n : values[j].k = "nan" THEN out = NaN
              ELSE IF \E j \in 1..n : values[j].k = "inf" THEN out = Inf
              ELSE /\ out.k = "num"
                   /\ n * out.v <= total
                   /\ total < n * out.v + n

C1_Witness ==
    /\ Returned /\ ArgIsArrayOrFrame2D
    /\ Len(info["Values"]) = 2
    /\ AllFinite(info["Values"])
    /\ info["Values"][1].v # info["Values"][2].v
    /\ out.k = "num"

\* the single time series path applied to the samples xs: lines 76-78
SingleResult(xs) ==
    LET tol == GetR(NdArray1(xs), r, dimension)
    IN [tol |-> tol,
        out |-> IF IsError(tol) THEN tol
                ELSE EntropyFuzzyInner(NdArray1(xs), tol, delay, dimension, kwargs)]

\* C2: a call that returns for a one-dimensional signal, and a call that
\* returns for the same samples wrapped as a one-channel two-dimensional array
\* or frame, return the same entropy and the same info["Tolerance"]: both are
\* what the single time series computation gives for these samples.
C2_SingleVsMulti ==
    /\ (Returned /\ ArgIsArrayOrFrame2D /\ NumChannels = 1) =>
          /\ out = SingleResult(arg.data[1]).out
          /\ info["Tolerance"] = SingleResult(arg.data[1]).tol
    /\ (Returned /\ arg.ndim = 1) =>
          /\ out = SingleResult(arg.data).out
          /\ info["Tolerance"] = SingleResult(arg.data).tol

C2_Witness ==
    /\ Returned /\ ArgIsArrayOrFrame2D /\ NumChannels = 1
    /\ r = Default
    /\ out.k = "num"
    /\ out.v # 0

\* C3: info has the key "Values" exactly when the input is a two-dimensional
\* array or frame (from line 69 on); on return it has one entry per channel and
\* entry c is the FuzzyEn of channel c of the input, in the input's order.
C3_ValuesPerChannel ==
    /\ pc \in {"loop", "return", "done"} => ("Values" \in DOMAIN info <=> ArgIsArrayOrFrame2D)
    /\ (Returned /\ ArgIsArrayOrFrame2D) =>
          /\ Len(info["Values"]) = NumChannels
          /\ \A c \in 1..NumChannels : info["Values"][c] = ChannelEntropy(c)

C3_Witness ==
    /\ Returned /\ ArgIsArrayOrFrame2D
    /\ NumChannels = 2
    /\ info["Values"][1] # info["Values"][2]
    /\ info["Values"][2].k = "num"

\* C4: for multi-channel input, a call returns only if the FuzzyEn of no
\* channel fails; when a channel's FuzzyEn fails the call ends there with that
\* exception: the failing call is the last one made, no later channel is
\* processed and no result is assigned.
C4_FailureAborts ==
    /\ (Returned /\ ArgIsArrayOrFrame2D) =>
          \A c \in 1..NumChannels : ~IsError(ChannelEntropy(c))
    /\ (pc = "raised" /\ ArgIsArrayOrFrame2D /\ calls # <<>>) =>
          /\ IsError(CallEntropy(calls[Len(calls)]))
          /\ err = CallEntropy(calls[Len(calls)]).e
          /\ Len(calls) = i + 1
          /\ out = None

C4_Witness ==
    /\ pc = "raised" /\ ArgIsArrayOrFrame2D
    /\ NumChannels = 2
    /\ Len(calls) = 1
    /\ err = "InsufficientSamples"

\* C5: a call with dimension = 0, with delay = 0 or with the tolerance -1 never
\* returns a result.
C5_InvalidParameterNeverReturns ==
    (dimension = 0 \/ delay = 0 \/ r = Num(-100)) => ~Returned

\* C6: for multi-channel input _get_r is called at most once, before any
\* channel is processed and on the sanitized channel set, and the value it
\* gave is the r of every _entropy_fuzzy call.
C6_OneTolerance ==
    ArgIsArrayOrFrame2D =>
        /\ Len(rCalls) <= 1
        /\ \A j \in 1..Len(rCalls) : rCalls[j] = 0
        /\ calls # <<>> =>
              /\ Len(rCalls) = 1
              /\ info["Tolerance"] = GetR(SanitizeMultichannel(arg), r, dimension)
              /\ \A c \in 1..Len(calls) : calls[c].r = info["Tolerance"]

C6_Witness ==
    /\ Returned /\ ArgIsArrayOrFrame2D
    /\ Len(calls) = 2
    /\ r = Default
    /\ calls[1].signal # calls[2].signal

\* C7: on every return info["Dimension"] is the dimension argument,
\* info["Tau"] is the delay argument, and info["Tolerance"] is the r of every
\* _entropy_fuzzy call that was made.
C7_InfoParameters ==
    Returned =>
        /\ info["Dimension"] = dimension
        /\ info["Tau"] = delay
        /\ \A c \in 1..Len(calls) : calls[c].r = info["Tolerance"]

C7_Witness ==
    /\ Returned
    /\ delay # dimension
    /\ Len(calls) = 1
    /\ ~ArgIsArrayOrFrame2D

C9_Every2DInputIsMultichannel ==
    arg.ndim = 2 => pc \notin {"single_r", "single"}

\* C9 amended: a two-dimensional array or frame takes the multi-channel
\* path, with one _entropy_fuzzy call per channel, each on a one-dimensional
\* column, and info["Values"] on return; every other input, a nested list
\* included, takes the single time series path: it is passed whole to the one
\* _entropy_fuzzy call and info has no "Values".
C9_Dispatch ==
    /\ pc \in {"multi_r", "values", "loop"} => ArgIsArrayOrFrame2D
    /\ pc \in {"single_r", "single"} => ~ArgIsArrayOrFrame2D
    /\ Returned =>
          IF ArgIsArrayOrFrame2D
          THEN /\ "Values" \in DOMAIN info
               /\ Len(calls) = NumChannels
               /\ \A c \in 1..Len(calls) : calls[c].signal = ArgChannel(c)
          ELSE /\ "Values" \notin DOMAIN info
               /\ Len(calls) = 1
               /\ calls[1].signal = arg
    /\ (~ArgIsArrayOrFrame2D /\ calls # <<>>) => (Len(calls) = 1 /\ calls[1].signal = arg)

C9_Witness ==
    /\ arg.type = "list" /\ arg.ndim = 2
    /\ Len(arg.data) = 2
    /\ Len(calls) = 1
    /\ calls[1].signal = arg
    /\ "Values" \notin DOMAIN info

\* C10: on return for multi-channel input, if the FuzzyEn of at least one
\* channel is NaN the scalar returned is NaN, and info["Values"] holds the
\* FuzzyEn of every channel, the defined ones included.
C10_NaNPropagates ==
    (Returned /\ ArgIsArrayOrFrame2D /\ \E c \in 1..NumChannels : ChannelEntropy(c) = NaN) =>
        /\ out = NaN
        /\ \A c \in 1..NumChannels : info["Values"][c] = ChannelEntropy(c)

C10_Witness ==
    /\ Returned /\ ArgIsArrayOrFrame2D
    /\ NumChannels = 2
    /\ info["Values"][1] = NaN
    /\ info["Values"][2].k = "num"
    /\ out = NaN

====
